---- MODULE Spec2Model ----
(***************************************************************************)
(* Streaming relay of amplify-agentcore-app:                               *)
(*   - the server relay  (src/app/api/agent-stream/route.ts: POST.start    *)
(*     and streamFromAgentCore),                                           *)
(*   - the client stream consumer (hooks/useSSEChat: processStreaming-     *)
(*     Response and its helpers).                                          *)
(*                                                                         *)
(* Text is a sequence of tokens. A token is a record [t, text, ws]:        *)
(*   "nl"    the newline character                                         *)
(*   "sp"    a whitespace character other than newline                     *)
(*   "data"  the six characters `data: `                                   *)
(*   "done"  the characters `[DONE]`                                       *)
(*   "x"     a letter that is not JSON, one byte long                      *)
(*   "u"     a letter that is not JSON, two bytes long in UTF-8            *)
(*   "b1", "b2"  the first and the second byte of "u", before decoding     *)
(*   "fffd"  the replacement character a decoder puts for a stray byte     *)
(*   "delta" the JSON text {"event":{"contentBlockDelta":{"delta":         *)
(*           {"text": text}}}}                                             *)
(*   "error" the JSON text {"error": text}                                 *)
(*   "json"  a JSON text of any other shape                                *)
(* ws = TRUE marks a JSON text written with insignificant whitespace.      *)
(* Strings carried by events are sequences of symbols.                     *)
(***************************************************************************)
EXTENDS Integers, Sequences, FiniteSets, TLC

\* longest enumerated upstream text, in tokens
MaxLen == 3

\* longest enumerated upstream text of the end-to-end runs, in tokens
MaxE2ELen == 2

Tok(t, text, ws) == [t |-> t, text |-> text, ws |-> ws]

NL == Tok("nl", <<>>, FALSE)

SP == Tok("sp", <<>>, FALSE)

DATA == Tok("data", <<>>, FALSE)

DONE == Tok("done", <<>>, FALSE)

X == Tok("x", <<>>, FALSE)

U == Tok("u", <<>>, FALSE)

B1 == Tok("b1", <<>>, FALSE)

B2 == Tok("b2", <<>>, FALSE)

REPL == Tok("fffd", <<>>, FALSE)

Delta(text) == Tok("delta", text, FALSE)

Err(text) == Tok("error", text, FALSE)

JSONVAL == Tok("json", <<>>, FALSE)

Spaced(tok) == [tok EXCEPT !.ws = TRUE]

----------------------------------------------------------------------------
(* String primitives used by both sides *)

IsSpace(tok) == tok.t \in {"sp", "nl"}

RECURSIVE TrimLeft(_)
TrimLeft(s) ==
    IF s = <<>> THEN s
    ELSE IF IsSpace(Head(s)) THEN TrimLeft(Tail(s)) ELSE s

RECURSIVE TrimRight(_)
TrimRight(s) ==
    IF s = <<>> THEN s
    ELSE IF IsSpace(s[Len(s)]) THEN TrimRight(SubSeq(s, 1, Len(s) - 1)) ELSE s

\* String.prototype.trim
Trim(s) == TrimRight(TrimLeft(s))

\* buffer.indexOf('\n'): position of the first newline, 0 when there is none
IndexOfNL(s) ==
    IF \E i \in 1..Len(s) : s[i] = NL
    THEN CHOOSE i \in 1..Len(s) : s[i] = NL /\ \A j \in 1..(i - 1) : s[j] # NL
    ELSE 0

\* str.startsWith('data: ') on a string that may have been trimmed: a
\* trimmed string that ends in the token `data: ` has lost its last blank
StartsWithData(s, trimmed) ==
    /\ s # <<>>
    /\ Head(s) = DATA
    /\ (trimmed => Len(s) > 1)

\* the characters of a piece of text, as the symbols of a string value
RECURSIVE TextOf(_)
TextOf(s) ==
    IF s = <<>> THEN <<>>
    ELSE (IF Head(s).t \in {"delta", "error", "json"}
          THEN <<"{", Head(s).t>> \o Head(s).text \o <<"}">>
          ELSE <<Head(s).t>>) \o TextOf(Tail(s))

\* JSON.parse: succeeds on exactly one JSON text, surrounding whitespace
\* allowed; the value forgets the insignificant whitespace of the text
ParseJSON(s) ==
    LET t == Trim(s) IN
    IF Len(t) = 1 /\ t[1].t \in {"delta", "error", "json"}
    THEN [ok |-> TRUE, val |-> [t[1] EXCEPT !.ws = FALSE]]
    ELSE [ok |-> FALSE, val |-> JSONVAL]

\* JSON.stringify of a parsed value: the compact JSON text
Stringify(val) == [val EXCEPT !.ws = FALSE]

\* encoder.encode(`data: ${JSON.stringify(v)}\n\n`); src is the number of the
\* upstream line the frame was produced for (0: produced by the relay itself)
MkFrame(val, src) == [json |-> Stringify(val), src |-> src]

\* TextEncoder.encode, and the bytes an upstream sends for a text
RECURSIVE Encode(_)
Encode(text) ==
    IF text = <<>> THEN <<>>
    ELSE (IF Head(text) = U THEN <<B1, B2>> ELSE <<Head(text)>>)
         \o Encode(Tail(text))

\* TextDecoder.decode(value, {stream: true}): pending is the incomplete
\* character kept from the chunks before
RECURSIVE DecodeStream(_, _)
DecodeStream(pending, bytes) ==
    IF bytes = <<>> THEN [text |-> <<>>, pending |-> pending]
    ELSE LET b == Head(bytes) IN
         IF pending = <<B1>>
         THEN IF b = B2
              THEN LET r == DecodeStream(<<>>, Tail(bytes)) IN
                   [text |-> <<U>> \o r.text, pending |-> r.pending]
              ELSE LET r == DecodeStream(<<>>, bytes) IN
                   [text |-> <<REPL>> \o r.text, pending |-> r.pending]
         ELSE IF b = B1 THEN DecodeStream(<<B1>>, Tail(bytes))
         ELSE LET r == DecodeStream(<<>>, Tail(bytes)) IN
              [text |-> <<IF b = B2 THEN REPL ELSE b>> \o r.text,
               pending |-> r.pending]

\* the characters of one frame on the wire
FrameText(f) == <<DATA, f.json, NL, NL>>

RECURSIVE Wire(_)
Wire(frames) ==
    IF frames = <<>> THEN <<>>
    ELSE FrameText(Head(frames)) \o Wire(Tail(frames))

----------------------------------------------------------------------------
(* Upstream texts the model is run on *)

Alphabet == {NL, SP, DATA, DONE, X, U, Delta(<<"Hi">>), Err(<<"X">>), JSONVAL}

RECURSIVE TextsOfLen(_)
TextsOfLen(n) ==
    IF n = 0 THEN {<<>>}
    ELSE {Append(s, a) : s \in TextsOfLen(n - 1), a \in Alphabet}

BoundedTexts == UNION {TextsOfLen(n) : n \in 0..MaxLen}

HiThere ==
    <<DATA, Delta(<<"Hi">>), NL, NL,
      DATA, Delta(<<" there">>), NL, NL,
      DATA, DONE, NL, NL>>

Examples ==
    { HiThere,
      <<Delta(<<"Hi">>), NL, DATA, DONE, NL, X, NL, DATA, Delta(<<"late">>), NL>>,
      <<DATA, Err(<<"X">>), NL, DATA, Delta(<<"Hi">>), NL, X, NL>>,
      <<Err(<<"X">>), NL, Delta(<<"Hi">>), NL>>,
      <<X, U, NL, SP, DATA, SP, Spaced(Delta(<<"Hi">>)), SP, NL, JSONVAL>>,
      <<Delta(<<"Hi">>), NL, X, NL, DATA, JSONVAL, NL, Delta(<<" there">>)>>,
      <<SP, X, NL, U, NL, X, U, X>>,
      <<X, NL, DATA, X, NL, DATA, X>> }

UpstreamTexts == BoundedTexts \cup Examples

----------------------------------------------------------------------------
(* Server relay: route.ts *)

VARIABLES
    upText,      \* the whole text the upstream will deliver
    upRest,      \* the bytes of it not read yet
    decoder,     \* streamFromAgentCore: decoder (its incomplete character)
    pc,          \* position of POST.start: "init", "delay", "loop", "done"
    reader,      \* upstream body reader: "none", "locked", "released"
    buffer,      \* streamFromAgentCore: buffer
    lineNo,      \* number of upstream lines taken out of the buffer so far
    isClosed,    \* streamFromAgentCore: isClosed
    ds,          \* downstream stream: "open", "closed" (controller.close took
                 \* effect), "cancelled" (the consumer went away)
    out,         \* frames accepted by controller.enqueue, in order
    closes,      \* number of controller.close calls that took effect
    closeCalls,  \* number of controller.close calls
    enqFailed,   \* some controller.enqueue call has thrown
    lateWrites,  \* controller.enqueue calls made after one had thrown
    escaped,     \* an exception left POST.start
    failure,     \* upstream failure met: "none", "network", "status",
                 \* "nobody", "read"
    fetches      \* number of requests sent to the upstream

relayVars ==
    <<upText, upRest, decoder, pc, reader, buffer, lineNo, isClosed, ds, out, closes,
      closeCalls, enqFailed, lateWrites, escaped, failure, fetches>>

\* client stream consumer (hooks/useSSEChat)
VARIABLES
    cPc,             \* "idle", "streaming", "completed", "failed"
    cPos,            \* number of bytes of the response body read so far
    cDecoder,        \* processStreamingResponse: decoder
    cBuffer,         \* processStreamingResponse: buffer
    currentMessage,  \* processStreamingResponse: currentMessage
    messages         \* useSSEChat: messages

clientVars == <<cPc, cPos, cDecoder, cBuffer, currentMessage, messages>>

\* the line reframers run on their own
VARIABLES
    rfText,    \* the text
    rfServer,  \* [pos, pending, buffer, lines]: the decoding and the inner
               \* loop of streamFromAgentCore; pos counts bytes
    rfClient   \* [pos, pending, buffer, lines]: the decoding and the split
               \* of processStreamingResponse

rfVars == <<rfText, rfServer, rfClient>>

\* the inbound POST (route.ts: POST)
VARIABLES
    request,       \* the inbound request: [auth, verdict, access, body]
    postPc,        \* position of POST: "request", "validated", "done"
    response,      \* status of the response returned, 0 before
    verifyResult   \* what the call of verifyJWT did: [called, threw, value]

postVars == <<request, postPc, response, verifyResult>>

\* one chain of sendMessage invocations of the hook (useSSEChat)
VARIABLES
    prompt,        \* the prompt passed: "blank" or "text"
    retryCount,    \* retryCount of the invocation under way
    maxRetries,    \* the option of the hook
    isLoading,     \* UI state
    error,         \* UI state; <<>> is null
    timers,        \* the delays of the retry timers set so far
    tokenFetches,  \* number of getAuthTokens calls so far
    creds,         \* the getAuthTokens call whose tokens the invocation holds
    usedCreds,     \* for each HTTP request sent, the tokens it carried
    attempts,      \* invocations that got past the prompt guard
    lastStatus,    \* how the fetch of the last attempt ended
    sentPrompts,   \* for each HTTP request sent, the prompt in its body
    fired,         \* number of retry timers that have fired
    owners,        \* for each entry of messages, the call and the attempt
                   \* (retryCount) that appended it
    self           \* the sendMessage call taking steps: 1 or 2

sendVars ==
    <<prompt, retryCount, maxRetries, isLoading, error, timers, tokenFetches,
      creds, usedCreds, attempts, lastStatus, sentPrompts, fired, owners,
      self>>

\* a second invocation running at the same time: the locals of the
\* sendMessage call, and of the streamFromAgentCore call, that is not the one
\* taking steps
VARIABLES other, relay2

pairVars == <<other, relay2>>

\* the controller and the closure variables, as the value the helpers work on
St ==
    [ isClosed |-> isClosed, ds |-> ds, out |-> out, closes |-> closes,
      closeCalls |-> closeCalls, enqFailed |-> enqFailed,
      lateWrites |-> lateWrites, threw |-> FALSE, returned |-> FALSE ]

\* ReadableStreamDefaultController.enqueue: throws unless the stream is
\* readable and no close was requested
ControllerEnqueue(s, f) ==
    LET late == IF s.enqFailed THEN 1 ELSE 0 IN
    IF s.ds = "open"
    THEN [s EXCEPT !.out = Append(@, f), !.lateWrites = @ + late]
    ELSE [s EXCEPT !.threw = TRUE, !.enqFailed = TRUE, !.lateWrites = @ + late]

\* ReadableStreamDefaultController.close: throws unless the stream is
\* readable and no close was requested
ControllerClose(s) ==
    IF s.ds = "open"
    THEN [s EXCEPT !.ds = "closed", !.closes = @ + 1, !.closeCalls = @ + 1]
    ELSE [s EXCEPT !.threw = TRUE, !.closeCalls = @ + 1]

safeClose(s) ==
    IF ~s.isClosed
    THEN [ControllerClose([s EXCEPT !.isClosed = TRUE]) EXCEPT !.threw = FALSE]
    ELSE s

\* safeEnqueue that does not record the failure in isClosed
safeEnqueue_NoMark(s, f) ==
    IF ~s.isClosed
    THEN [ControllerEnqueue(s, f) EXCEPT !.threw = FALSE]
    ELSE s

\* safeEnqueue that hands the data to the controller twice
safeEnqueue_Twice(s, f) ==
    IF ~s.isClosed
    THEN LET r == ControllerEnqueue(ControllerEnqueue(s, f), f) IN
         IF r.threw THEN [r EXCEPT !.threw = FALSE, !.isClosed = TRUE] ELSE r
    ELSE s

safeEnqueue(s, f) ==
    IF ~s.isClosed
    THEN LET r == ControllerEnqueue(s, f) IN
         IF r.threw THEN [r EXCEPT !.threw = FALSE, !.isClosed = TRUE] ELSE r
    ELSE s

\* the head of the inner while loop: the next line of the buffer, trimmed,
\* and the buffer after it (only called when the buffer holds a newline)
NextLine(buf) ==
    LET newlineIndex == IndexOfNL(buf) IN
    [ line |-> Trim(SubSeq(buf, 1, newlineIndex - 1)),
      rest |-> SubSeq(buf, newlineIndex + 1, Len(buf)) ]

\* ProcessLine without the test for the sentinel
ProcessLine_NoSentinel(s, line, n) ==
    IF line = <<>> \/ s.isClosed THEN s
    ELSE LET body == IF StartsWithData(line, TRUE) THEN Trim(Tail(line))
                     ELSE line
             parsed == ParseJSON(body)
         IN  IF parsed.ok THEN safeEnqueue(s, MkFrame(parsed.val, n))
             ELSE IF ~StartsWithData(line, TRUE) \/ body = <<DONE>>
             THEN safeEnqueue(s, MkFrame(Delta(TextOf(line)), n))
             ELSE s

\* ProcessLine that ignores every parse failure, also of a line without
\* the `data: ` prefix
ProcessLine_DropPlain(s, line, n) ==
    IF line = <<>> \/ s.isClosed THEN s
    ELSE LET data == IF StartsWithData(line, TRUE) THEN Trim(Tail(line))
                     ELSE line
             parsed == ParseJSON(data)
         IN  IF StartsWithData(line, TRUE) /\ data = <<DONE>>
             THEN [safeClose(s) EXCEPT !.returned = TRUE]
             ELSE IF parsed.ok THEN safeEnqueue(s, MkFrame(parsed.val, n))
             ELSE s

\* the body of the inner while loop for one line, numbered n
ProcessLine(s, line, n) ==
    IF line = <<>> \/ s.isClosed THEN s
    ELSE IF StartsWithData(line, TRUE)
    THEN LET data == Trim(Tail(line)) IN
         IF data = <<DONE>>
         THEN [safeClose(s) EXCEPT !.returned = TRUE]
         ELSE LET parsed == ParseJSON(data) IN
              IF parsed.ok THEN safeEnqueue(s, MkFrame(parsed.val, n)) ELSE s
    ELSE LET parsed == ParseJSON(line) IN
         IF parsed.ok THEN safeEnqueue(s, MkFrame(parsed.val, n))
         ELSE IF Trim(line) # <<>>
         THEN safeEnqueue(s, MkFrame(Delta(TextOf(line)), n))
         ELSE s

\* the inner while loop: lines are taken out and processed one by one until
\* the buffer holds no newline or the sentinel made the function return
RECURSIVE DrainBuffer(_, _, _)
DrainBuffer(s, buf, n) ==
    IF IndexOfNL(buf) = 0 THEN [st |-> s, buffer |-> buf, lineNo |-> n]
    ELSE LET nl == NextLine(buf)
             s2 == ProcessLine(s, nl.line, n + 1)
         IN  IF s2.returned
             THEN [st |-> s2, buffer |-> nl.rest, lineNo |-> n + 1]
             ELSE DrainBuffer(s2, nl.rest, n + 1)

\* Finish without the closing safeClose
Finish_NoClose(s, buf, n) ==
    LET parsed == ParseJSON(buf) IN
    IF Trim(buf) # <<>> /\ ~s.isClosed /\ parsed.ok
    THEN safeEnqueue(s, MkFrame(parsed.val, n + 1))
    ELSE s

\* after the read loop: the remaining buffer, then safeClose
Finish(s, buf, n) ==
    LET parsed == ParseJSON(buf)
        s1 == IF Trim(buf) # <<>> /\ ~s.isClosed /\ parsed.ok
              THEN safeEnqueue(s, MkFrame(parsed.val, n + 1))
              ELSE s
    IN  safeClose(s1)

\* error-utils.ts
getErrorMessage(e) ==
    IF e.kind \in {"Error", "string", "object"} THEN e.message
    ELSE <<"Unknown error occurred">>

\* what streamFromAgentCore throws for each upstream failure
ErrorOf(f) ==
    [ kind |-> "Error",
      message |->
        IF f = "network" THEN <<"Network error: ", "cause">>
        ELSE IF f = "status" THEN <<"AgentCore returned ", "status">>
        ELSE IF f = "nobody" THEN <<"No response body from AgentCore">>
        ELSE <<"read failed">> ]

ErrorFrame(e) ==
    MkFrame(Delta(<<"AgentCore Error: ">> \o getErrorMessage(e)), 0)

TestFrame == MkFrame(Delta(<<"Testing connection to AgentCore... ">>), 0)

\* PostCatch with the enqueue and the close outside any try block
PostCatch_NoTry(s, e) ==
    LET r == ControllerEnqueue([s EXCEPT !.threw = FALSE], ErrorFrame(e)) IN
    IF r.threw THEN r ELSE ControllerClose(r)

\* the catch block of POST.start
PostCatch(s, e) ==
    LET r == ControllerEnqueue([s EXCEPT !.threw = FALSE], ErrorFrame(e)) IN
    IF r.threw THEN [r EXCEPT !.threw = FALSE]
    ELSE [ControllerClose(r) EXCEPT !.threw = FALSE]

\* the controller and closure variables after a step
SetSt(s) ==
    /\ isClosed' = s.isClosed
    /\ ds' = s.ds
    /\ out' = s.out
    /\ closes' = s.closes
    /\ closeCalls' = s.closeCalls
    /\ enqFailed' = s.enqFailed
    /\ lateWrites' = s.lateWrites
    /\ escaped' = (escaped \/ s.threw)

RelayInit ==
    /\ upText \in UpstreamTexts
    /\ upRest = Encode(upText)
    /\ decoder = <<>>
    /\ pc = "init"
    /\ reader = "none"
    /\ buffer = <<>>
    /\ lineNo = 0
    /\ isClosed = FALSE
    /\ ds = "open"
    /\ out = <<>>
    /\ closes = 0
    /\ closeCalls = 0
    /\ enqFailed = FALSE
    /\ lateWrites = 0
    /\ escaped = FALSE
    /\ failure = "none"
    /\ fetches = 0

\* POST.start up to the 500 ms wait: the test message
StartHandler ==
    /\ pc = "init"
    /\ LET r == ControllerEnqueue(St, TestFrame) IN
       IF r.threw
       THEN SetSt(PostCatch(r, [kind |-> "Error", message |-> <<"enqueue">>]))
            /\ pc' = "done"
       ELSE SetSt(r) /\ pc' = "delay"
    /\ UNCHANGED <<upText, upRest, decoder, reader, buffer, lineNo, failure,
                   fetches>>
    /\ UNCHANGED <<clientVars, rfVars, postVars, sendVars, pairVars>>

\* streamFromAgentCore: fetch answers with a success status and a body
FetchOk ==
    /\ pc = "delay"
    /\ fetches' = fetches + 1
    /\ reader' = "locked"
    /\ pc' = "loop"
    /\ UNCHANGED <<upText, upRest, decoder, buffer, lineNo, isClosed, ds, out,
                   closes,
                   closeCalls, enqFailed, lateWrites, escaped, failure>>
    /\ UNCHANGED <<clientVars, rfVars, postVars, sendVars, pairVars>>

\* streamFromAgentCore: fetch rejects, or answers with a non-success status
\* or without a body; the error goes through the catch of line 203 (no
\* reader yet) into the catch of POST.start
FetchFail(f) ==
    /\ pc = "delay"
    /\ fetches' = fetches + 1
    /\ failure' = f
    /\ SetSt(PostCatch(St, ErrorOf(f)))
    /\ pc' = "done"
    /\ UNCHANGED <<upText, upRest, decoder, reader, buffer, lineNo>>
    /\ UNCHANGED <<clientVars, rfVars, postVars, sendVars, pairVars>>

\* one turn of the read loop on a chunk of k characters
ReadChunk(k) ==
    /\ pc = "loop"
    /\ ~isClosed
    /\ k \in 1..Len(upRest)
    /\ LET value == SubSeq(upRest, 1, k)
           chunk == DecodeStream(decoder, value)
           d == DrainBuffer(St, buffer \o chunk.text, lineNo)
       IN  /\ upRest' = SubSeq(upRest, k + 1, Len(upRest))
           /\ decoder' = chunk.pending
           /\ buffer' = d.buffer
           /\ lineNo' = d.lineNo
           /\ IF d.st.returned
              THEN SetSt(d.st) /\ pc' = "done"
              ELSE IF d.st.isClosed
              THEN SetSt(Finish(d.st, d.buffer, d.lineNo)) /\ pc' = "done"
              ELSE SetSt(d.st) /\ pc' = "loop"
    /\ UNCHANGED <<upText, reader, failure, fetches>>
    /\ UNCHANGED <<clientVars, rfVars, postVars, sendVars, pairVars>>

\* reader.read() reports the end of the upstream body
ReadDone ==
    /\ pc = "loop"
    /\ ~isClosed
    /\ upRest = <<>>
    /\ SetSt(Finish(St, buffer, lineNo))
    /\ pc' = "done"
    /\ UNCHANGED <<upText, upRest, decoder, reader, buffer, lineNo, failure,
                   fetches>>
    /\ UNCHANGED <<clientVars, rfVars, postVars, sendVars, pairVars>>

\* reader.read() rejects: catch of line 203 releases the reader and rethrows
\* into the catch of POST.start
ReadError ==
    /\ pc = "loop"
    /\ ~isClosed
    /\ reader' = "released"
    /\ failure' = "read"
    /\ SetSt(PostCatch(St, ErrorOf("read")))
    /\ pc' = "done"
    /\ UNCHANGED <<upText, upRest, decoder, buffer, lineNo, fetches>>
    /\ UNCHANGED <<clientVars, rfVars, postVars, sendVars, pairVars>>

\* the consumer of the response goes away: the stream is cancelled
ClientCancel ==
    /\ pc \in {"delay", "loop"}
    /\ ds = "open"
    /\ ds' = "cancelled"
    /\ UNCHANGED <<upText, upRest, decoder, pc, reader, buffer, lineNo,
                   isClosed, out,
                   closes, closeCalls, enqFailed, lateWrites, escaped, failure,
                   fetches>>
    /\ UNCHANGED <<clientVars, rfVars, postVars, sendVars, pairVars>>

----------------------------------------------------------------------------
(* Inbound POST: route.ts POST, validateIdToken, extractAccessToken, and
   auth-utils verifyJWT *)

\* what verifier.verify does with a token: it resolves ("accept") or rejects
Verdicts ==
    {"accept", "bad_signature", "expired", "wrong_audience", "wrong_issuer",
     "malformed", "jwks_fetch_failed"}

\* Authorization header: absent, present without `Bearer `, or a bearer token
AuthHeaders == {"none", "basic", "bearer"}

\* the request body: not JSON, not JSON with an engine that quotes the text
\* (here the word Invalid) in its message, the JSON value null, or an object
\* whose prompt is absent, null, '', blank, a number, or a non-blank string
Bodies ==
    {"malformed", "malformed_echo", "null", "no_prompt", "null_prompt",
     "empty", "blank", "number", "text"}

Requests ==
    [auth : AuthHeaders, verdict : Verdicts, access : {"present", "missing"},
     body : Bodies]

ValidRequest ==
    [auth |-> "bearer", verdict |-> "accept", access |-> "present",
     body |-> "text"]

NoThrow == [threw |-> FALSE, message |-> <<>>]

Throw(message) == [threw |-> TRUE, message |-> message]

\* verifyJWT that lets a failure to fetch the key material through
verifyJWT_Rethrow(verdict) ==
    IF verdict = "jwks_fetch_failed"
    THEN [called |-> TRUE, threw |-> TRUE, value |-> FALSE]
    ELSE [called |-> TRUE, threw |-> FALSE, value |-> verdict = "accept"]

\* auth-utils: verifyJWT; the try returns true when verifier.verify
\* resolves, the catch logs and returns false
verifyJWT(verdict) ==
    [called |-> TRUE, threw |-> FALSE, value |-> verdict = "accept"]

\* validateIdToken: the error it throws, if any, and the verifyJWT call made
validateIdToken(req) ==
    IF req.auth # "bearer"
    THEN [error |-> Throw(<<"Missing", "ID", "token">>),
          verify |-> [called |-> FALSE, threw |-> FALSE, value |-> FALSE]]
    ELSE LET isValid == verifyJWT(req.verdict) IN
         IF isValid.threw
         THEN [error |-> Throw(<<"verify", "failed">>), verify |-> isValid]
         ELSE IF ~isValid.value
         THEN [error |-> Throw(<<"Invalid", "ID", "token">>), verify |-> isValid]
         ELSE [error |-> NoThrow, verify |-> isValid]

\* extractAccessToken that accepts a request without the header
extractAccessToken_Skip(req) == NoThrow

extractAccessToken(req) ==
    IF req.access = "missing" THEN Throw(<<"Missing", "access", "token">>)
    ELSE NoThrow

\* await request.json() with the destructuring of prompt and sessionId
RequestJson(req) ==
    IF req.body = "malformed" THEN Throw(<<"Unexpected", "token">>)
    ELSE IF req.body = "malformed_echo"
    THEN Throw(<<"Unexpected", "token", "Invalid", "is", "not", "valid", "JSON">>)
    ELSE IF req.body = "null" THEN Throw(<<"Cannot", "destructure">>)
    ELSE NoThrow

\* line 234: prompt?.substring(0, 50) throws on a prompt that is neither
\* null, undefined nor a string
LogPayload(req) ==
    IF req.body = "number"
    THEN Throw(<<"prompt.substring", "is", "not", "a", "function">>)
    ELSE NoThrow

\* prompt validation that forgets to trim
PromptInvalid_NoTrim(req) == req.body \in {"no_prompt", "null_prompt", "empty", "number"}

\* !prompt || typeof prompt !== 'string' || !prompt.trim()
PromptInvalid(req) == req.body # "text"

\* error.message.includes(word)
Includes(message, word) == \E i \in 1..Len(message) : message[i] = word

\* the catch block of POST
PostErrorResponse(e) ==
    IF Includes(e.message, "Missing") \/ Includes(e.message, "Invalid")
    THEN 401
    ELSE 500

\* POST after validateIdToken: the status it answers with
PostStatus(req) ==
    IF extractAccessToken(req).threw
    THEN PostErrorResponse(extractAccessToken(req))
    ELSE IF RequestJson(req).threw THEN PostErrorResponse(RequestJson(req))
    ELSE IF LogPayload(req).threw THEN PostErrorResponse(LogPayload(req))
    ELSE IF PromptInvalid(req) THEN 400
    ELSE 200

PostOff ==
    /\ request = ValidRequest
    /\ postPc = "done"
    /\ response = 200
    /\ verifyResult = [called |-> TRUE, threw |-> FALSE, value |-> TRUE]

\* POST up to the end of validateIdToken
PostValidate ==
    /\ postPc = "request"
    /\ LET v == validateIdToken(request) IN
       /\ verifyResult' = v.verify
       /\ IF v.error.threw
          THEN response' = PostErrorResponse(v.error) /\ postPc' = "done"
          ELSE response' = response /\ postPc' = "validated"
    /\ UNCHANGED <<request, relayVars, clientVars, rfVars, sendVars, pairVars>>

\* POST from extractAccessToken to the response; a 200 response carries the
\* stream whose start handler is the relay
PostRespond ==
    /\ postPc = "validated"
    /\ response' = PostStatus(request)
    /\ postPc' = "done"
    /\ pc' = IF PostStatus(request) = 200 THEN "init" ELSE pc
    /\ UNCHANGED <<request, verifyResult, upText, upRest, decoder, reader,
                   buffer, lineNo, isClosed, ds, out, closes, closeCalls,
                   enqFailed, lateWrites, escaped, failure, fetches,
                   clientVars, rfVars, sendVars, pairVars>>

----------------------------------------------------------------------------
(* Client stream consumer: hooks/useSSEChat *)


\* buffer.split('\n')
RECURSIVE SplitNL(_)
SplitNL(s) ==
    LET i == IndexOfNL(s) IN
    IF i = 0 THEN <<s>>
    ELSE <<SubSeq(s, 1, i - 1)>> \o SplitNL(SubSeq(s, i + 1, Len(s)))

\* ClientFeed that forgets the buffer kept from the chunk before
ClientFeed_NoCarry(buf, chunk) ==
    LET parts == SplitNL(chunk) IN
    [ lines |-> SubSeq(parts, 1, Len(parts) - 1),
      buffer |-> parts[Len(parts)] ]

\* processStreamingResponse: the lines a chunk completes and the buffer kept
\* (lines = buffer.split('\n'); buffer = lines.pop() || '')
ClientFeed(buf, chunk) ==
    LET parts == SplitNL(buf \o chunk) IN
    [ lines |-> SubSeq(parts, 1, Len(parts) - 1),
      buffer |-> parts[Len(parts)] ]

\* null is modelled as the value [null |-> TRUE]
extractDataFromLine(line) ==
    IF StartsWithData(line, FALSE)
    THEN [null |-> FALSE, data |-> Trim(Tail(line))]
    ELSE [null |-> TRUE, data |-> <<>>]

\* throws on a non-empty string error field, returns the non-empty text of a
\* delta, null otherwise
extractMessageContent(parsed) ==
    IF parsed.t = "error" /\ parsed.text # <<>>
    THEN [threw |-> TRUE, null |-> TRUE, content |-> <<>>]
    ELSE IF parsed.t = "delta" /\ parsed.text # <<>>
    THEN [threw |-> FALSE, null |-> FALSE, content |-> parsed.text]
    ELSE [threw |-> FALSE, null |-> TRUE, content |-> <<>>]

\* onMessageUpdate of sendMessage
onMessageUpdate(msgs, cur) == SubSeq(msgs, 1, Len(msgs) - 1) \o <<cur>>

\* onComplete of sendMessage
onComplete(msgs, final) ==
    IF final # <<>>
    THEN SubSeq(msgs, 1, Len(msgs) - 1) \o <<final>>
    ELSE SubSeq(msgs, 1, Len(msgs) - 1)

\* the body of the for loop of processStreamingResponse for one line;
\* c = [cur, msgs]
ClientLine(c, line) ==
    IF Trim(line) = <<>> THEN c
    ELSE LET dataToProcess == extractDataFromLine(line) IN
         IF dataToProcess.null \/ dataToProcess.data = <<>> THEN c
         ELSE LET parsed == ParseJSON(dataToProcess.data) IN
              IF ~parsed.ok THEN c
              ELSE LET content == extractMessageContent(parsed.val) IN
                   IF content.threw \/ content.null THEN c
                   ELSE [ cur |-> c.cur \o content.content,
                          msgs |-> onMessageUpdate(c.msgs,
                                                   c.cur \o content.content) ]

RECURSIVE ClientLines(_, _)
ClientLines(c, lines) ==
    IF lines = <<>> THEN c
    ELSE ClientLines(ClientLine(c, Head(lines)), Tail(lines))

\* largest maxRetries option enumerated
MaxRetries == 3

\* default of the retryDelay option, in milliseconds
retryDelay == 1000

\* fetchAuthSession resolves with both tokens, without one of them, or rejects
Sessions == {"both", "no_id", "no_access", "rejected"}

\* useAuth.getAuthTokens: the tokens of the session fetched by call number
\* n; 0 stands for undefined and null
getAuthTokens(session, n) ==
    [ idToken |-> IF session \in {"both", "no_access"} THEN n ELSE 0,
      accessToken |-> IF session \in {"both", "no_id"} THEN n ELSE 0 ]

FetchFailures == {"network", "HTTP 400", "HTTP 401", "HTTP 500", "nobody"}

\* bodies of ok responses: what the relay writes, or nothing at all when
\* the response ends before the first frame
ResponseBodies ==
    { <<>>,
      <<TestFrame>>,
      <<TestFrame, MkFrame(Delta(<<"Hi">>), 1)>>,
      <<TestFrame, MkFrame(Err(<<"boom">>), 1), MkFrame(Delta(<<"Hi">>), 2)>> }

\* the catch of sendMessage that allows one retry too many
SendCatch_OneMore(count, max, message) ==
    IF count <= max
    THEN [retry |-> TRUE, pc |-> "retryWait", delay |-> retryDelay * (2 ^ count),
          error |-> <<>>]
    ELSE [retry |-> FALSE, pc |-> "failed", delay |-> 0,
          error |-> <<"Communication error", message>>]

\* the catch of sendMessage with a delay that grows by retryDelay each time
SendCatch_Linear(count, max, message) ==
    IF count < max
    THEN [retry |-> TRUE, pc |-> "retryWait", delay |-> retryDelay * (count + 1),
          error |-> <<>>]
    ELSE [retry |-> FALSE, pc |-> "failed", delay |-> 0,
          error |-> <<"Communication error", message>>]

\* the catch block of sendMessage
SendCatch(count, max, message) ==
    IF count < max
    THEN [retry |-> TRUE, pc |-> "retryWait", delay |-> retryDelay * (2 ^ count),
          error |-> <<>>]
    ELSE [retry |-> FALSE, pc |-> "failed", delay |-> 0,
          error |-> <<"Communication error", message>>]

\* the hook right after its fetch resolved with an ok response, no retry
\* allowed
SendFetched ==
    /\ prompt = "text" /\ retryCount = 0 /\ maxRetries = 0
    /\ isLoading = TRUE /\ error = <<>> /\ timers = <<>>
    /\ tokenFetches = 1 /\ creds = 1 /\ usedCreds = <<1>>
    /\ attempts = 1 /\ lastStatus = "ok"
    /\ sentPrompts = <<"text">> /\ fired = 0 /\ owners = <<>> /\ self = 1

SendInit ==
    /\ prompt \in {"blank", "text"} /\ retryCount = 0
    /\ maxRetries \in 0..MaxRetries
    /\ isLoading = FALSE /\ error = <<>> /\ timers = <<>>
    /\ tokenFetches = 0 /\ creds = 0 /\ usedCreds = <<>>
    /\ attempts = 0 /\ lastStatus = "none"
    /\ sentPrompts = <<>> /\ fired = 0 /\ owners = <<>> /\ self = 1

ClientInit ==
    /\ cPc = "idle"
    /\ cPos = 0
    /\ cDecoder = <<>>
    /\ cBuffer = <<>>
    /\ currentMessage = <<>>
    /\ messages = <<>>

\* sendMessage: the response is ok and has a body; a message slot is added
\* and processStreamingResponse takes the reader
BeginStreaming ==
    /\ cPc = "idle"
    /\ pc # "init"
    /\ messages' = Append(messages, <<>>)
    /\ owners' = Append(owners, <<self, retryCount>>)
    /\ cPc' = "streaming"
    /\ UNCHANGED <<cPos, cDecoder, cBuffer, currentMessage>>
    /\ UNCHANGED <<prompt, retryCount, maxRetries, isLoading, error, timers,
                   tokenFetches, creds, usedCreds, attempts, lastStatus,
                   sentPrompts, fired, self>>
    /\ UNCHANGED <<relayVars, rfVars, postVars, pairVars>>

\* one turn of the read loop of processStreamingResponse on k characters
ClientRead(k) ==
    /\ cPc = "streaming"
    /\ k \in 1..(Len(Encode(Wire(out))) - cPos)
    /\ LET body == Encode(Wire(out))
           chunk == DecodeStream(cDecoder, SubSeq(body, cPos + 1, cPos + k))
           fed == ClientFeed(cBuffer, chunk.text)
           c == ClientLines([cur |-> currentMessage, msgs |-> messages],
                            fed.lines)
       IN  /\ cPos' = cPos + k
           /\ cDecoder' = chunk.pending
           /\ cBuffer' = fed.buffer
           /\ currentMessage' = c.cur
           /\ messages' = c.msgs
    /\ UNCHANGED cPc
    /\ UNCHANGED <<relayVars, rfVars, postVars, sendVars, pairVars>>

\* reader.read() reports done: onComplete, then the finally block
ClientDone ==
    /\ cPc = "streaming"
    /\ ds = "closed"
    /\ cPos = Len(Encode(Wire(out)))
    /\ messages' = onComplete(messages, currentMessage)
    /\ owners' = IF currentMessage # <<>> THEN owners
                 ELSE SubSeq(owners, 1, Len(owners) - 1)
    /\ cPc' = "completed"
    /\ isLoading' = FALSE
    /\ UNCHANGED <<cPos, cDecoder, cBuffer, currentMessage>>
    /\ UNCHANGED <<prompt, retryCount, maxRetries, error, timers, tokenFetches,
                   creds, usedCreds, attempts, lastStatus,
                   sentPrompts, fired, self>>
    /\ UNCHANGED <<relayVars, rfVars, postVars, pairVars>>

\* reader.read() rejects because the connection was lost: the finally block
\* of processStreamingResponse, then the catch and the finally of sendMessage
ClientReadError ==
    /\ cPc = "streaming"
    /\ ds = "cancelled"
    /\ LET c == SendCatch(retryCount, maxRetries, "read failed") IN
       /\ cPc' = c.pc
       /\ error' = IF c.retry THEN error ELSE c.error
       /\ timers' = IF c.retry THEN Append(timers, c.delay) ELSE timers
    /\ isLoading' = FALSE
    /\ UNCHANGED <<cPos, cDecoder, cBuffer, currentMessage, messages>>
    /\ UNCHANGED <<prompt, retryCount, maxRetries, tokenFetches, creds,
                   usedCreds, attempts, lastStatus,
                   sentPrompts, fired, owners, self>>
    /\ UNCHANGED <<relayVars, rfVars, postVars, pairVars>>

----------------------------------------------------------------------------
(* sendMessage of useSSEChat around the stream consumer *)

\* sendMessage called by the component, retryCount = 0; ChatTest disables
\* its form while isLoading is true
SendMessage ==
    /\ cPc = "idle"
    /\ ~isLoading
    /\ IF prompt = "blank"
       THEN /\ cPc' = "ignored"
            /\ UNCHANGED <<isLoading, error, attempts>>
       ELSE /\ cPc' = "tokens"
            /\ isLoading' = TRUE
            /\ error' = <<>>
            /\ attempts' = attempts + 1
    /\ UNCHANGED <<prompt, retryCount, maxRetries, timers, tokenFetches, creds,
                   usedCreds, lastStatus,
                   sentPrompts, fired, owners, self>>
    /\ UNCHANGED <<cPos, cDecoder, cBuffer, currentMessage, messages>>
    /\ UNCHANGED <<relayVars, rfVars, postVars, pairVars>>

\* missing tokens handled as any other failure of the attempt
TokensResolved_Retry(session) ==
    /\ cPc = "tokens"
    /\ tokenFetches' = tokenFetches + 1
    /\ LET t == getAuthTokens(session, tokenFetches + 1) IN
       IF t.idToken = 0 \/ t.accessToken = 0
       THEN LET c == SendCatch(retryCount, maxRetries, "no tokens") IN
            /\ cPc' = c.pc
            /\ error' = IF c.retry THEN error ELSE c.error
            /\ timers' = IF c.retry THEN Append(timers, c.delay) ELSE timers
            /\ isLoading' = FALSE
            /\ creds' = creds
       ELSE /\ creds' = t.idToken
            /\ cPc' = "fetch"
            /\ UNCHANGED <<error, isLoading, timers>>
    /\ UNCHANGED <<prompt, retryCount, maxRetries, usedCreds, attempts,
                   lastStatus, sentPrompts, fired, owners, self>>
    /\ UNCHANGED <<cPos, cDecoder, cBuffer, currentMessage, messages>>
    /\ UNCHANGED <<relayVars, rfVars, postVars, pairVars>>

\* await getAuthTokens() and the check of the two tokens
TokensResolved(session) ==
    /\ cPc = "tokens"
    /\ tokenFetches' = tokenFetches + 1
    /\ LET t == getAuthTokens(session, tokenFetches + 1) IN
       IF t.idToken = 0 \/ t.accessToken = 0
       THEN /\ error' = <<"Unable to get authentication tokens">>
            /\ isLoading' = FALSE
            /\ cPc' = "failed"
            /\ creds' = creds
       ELSE /\ creds' = t.idToken
            /\ cPc' = "fetch"
            /\ UNCHANGED <<error, isLoading>>
    /\ UNCHANGED <<prompt, retryCount, maxRetries, timers, usedCreds, attempts,
                   lastStatus,
                   sentPrompts, fired, owners, self>>
    /\ UNCHANGED <<cPos, cDecoder, cBuffer, currentMessage, messages>>
    /\ UNCHANGED <<relayVars, rfVars, postVars, pairVars>>

\* fetch rejects, or resolves with a status that is not ok or without a body
FetchRejected(r) ==
    /\ cPc = "fetch"
    /\ r \in FetchFailures
    /\ usedCreds' = Append(usedCreds, creds)
    /\ lastStatus' = r
    /\ sentPrompts' = Append(sentPrompts, prompt)
    /\ UNCHANGED <<fired, owners, self>>
    /\ LET c == SendCatch(retryCount, maxRetries, r) IN
       /\ cPc' = c.pc
       /\ error' = IF c.retry THEN error ELSE c.error
       /\ timers' = IF c.retry THEN Append(timers, c.delay) ELSE timers
    /\ isLoading' = FALSE
    /\ UNCHANGED <<prompt, retryCount, maxRetries, tokenFetches, creds, attempts>>
    /\ UNCHANGED <<cPos, cDecoder, cBuffer, currentMessage, messages>>
    /\ UNCHANGED <<relayVars, rfVars, postVars, pairVars>>

\* fetch resolves with an ok response that has a body: the message slot is
\* added and processStreamingResponse starts on the body; the server writes
\* the frames of body and then closes (end = "closed") or the connection
\* breaks at some point (end = "cancelled")
FetchStreams(body, end) ==
    /\ cPc = "fetch"
    /\ body \in ResponseBodies
    /\ end \in {"closed", "cancelled"}
    /\ usedCreds' = Append(usedCreds, creds)
    /\ lastStatus' = "ok"
    /\ sentPrompts' = Append(sentPrompts, prompt)
    /\ owners' = Append(owners, <<self, retryCount>>)
    /\ UNCHANGED <<fired, self>>
    /\ out' = body
    /\ ds' = end
    /\ messages' = Append(messages, <<>>)
    /\ cPos' = 0 /\ cDecoder' = <<>> /\ cBuffer' = <<>> /\ currentMessage' = <<>>
    /\ cPc' = "streaming"
    /\ UNCHANGED <<prompt, retryCount, maxRetries, isLoading, error, timers,
                   tokenFetches, creds, attempts>>
    /\ UNCHANGED <<upText, upRest, decoder, pc, reader, buffer, lineNo,
                   isClosed, closes, closeCalls, enqFailed, lateWrites,
                   escaped, failure, fetches>>
    /\ UNCHANGED <<rfVars, postVars, pairVars>>

\* a retry that goes on with the tokens of the attempt before
RetryTimer_KeepTokens ==
    /\ cPc = "retryWait"
    /\ retryCount' = retryCount + 1
    /\ cPc' = "fetch"
    /\ isLoading' = TRUE
    /\ error' = <<>>
    /\ attempts' = attempts + 1
    /\ fired' = fired + 1
    /\ UNCHANGED <<prompt, maxRetries, timers, tokenFetches, creds, usedCreds,
                   lastStatus,
                   sentPrompts, owners, self>>
    /\ UNCHANGED <<cPos, cDecoder, cBuffer, currentMessage, messages>>
    /\ UNCHANGED <<relayVars, rfVars, postVars, pairVars>>

\* a retry timer that stays set after it fired
RetryTimer_Interval ==
    /\ cPc = "retryWait"
    /\ retryCount' = retryCount + 1
    /\ cPc' = "tokens"
    /\ isLoading' = TRUE
    /\ error' = <<>>
    /\ attempts' = attempts + 1
    /\ UNCHANGED <<prompt, maxRetries, timers, tokenFetches, creds, usedCreds,
                   lastStatus, sentPrompts, owners, self, fired>>
    /\ UNCHANGED <<cPos, cDecoder, cBuffer, currentMessage, messages>>
    /\ UNCHANGED <<relayVars, rfVars, postVars, pairVars>>

\* the retry timer fires: sendMessage(prompt, retryCount + 1)
RetryTimer ==
    /\ cPc = "retryWait"
    /\ retryCount' = retryCount + 1
    /\ cPc' = "tokens"
    /\ isLoading' = TRUE
    /\ error' = <<>>
    /\ attempts' = attempts + 1
    /\ fired' = fired + 1
    /\ UNCHANGED <<prompt, maxRetries, timers, tokenFetches, creds, usedCreds,
                   lastStatus,
                   sentPrompts, owners, self>>
    /\ UNCHANGED <<cPos, cDecoder, cBuffer, currentMessage, messages>>
    /\ UNCHANGED <<relayVars, rfVars, postVars, pairVars>>

\* the locals of the sendMessage call taking steps, with those of the
\* processStreamingResponse call and the response it reads
ThisSend ==
    [ prompt |-> prompt, retryCount |-> retryCount, timers |-> timers,
      fired |-> fired, tokenFetches |-> tokenFetches, creds |-> creds,
      usedCreds |-> usedCreds, sentPrompts |-> sentPrompts,
      attempts |-> attempts, lastStatus |-> lastStatus, self |-> self,
      cPc |-> cPc, cPos |-> cPos, cDecoder |-> cDecoder, cBuffer |-> cBuffer,
      currentMessage |-> currentMessage, out |-> out, ds |-> ds ]

\* the event loop goes on with the other sendMessage call: the parameters
\* and locals of a call are its own, the state of the hook (messages,
\* isLoading, error) and its options are shared
SwitchSend ==
    /\ cPc # "idle"
    /\ other.cPc \notin {"completed", "failed", "ignored"}
    /\ other' = ThisSend
    /\ prompt' = other.prompt /\ retryCount' = other.retryCount
    /\ timers' = other.timers /\ fired' = other.fired
    /\ tokenFetches' = other.tokenFetches /\ creds' = other.creds
    /\ usedCreds' = other.usedCreds /\ sentPrompts' = other.sentPrompts
    /\ attempts' = other.attempts /\ lastStatus' = other.lastStatus
    /\ self' = other.self
    /\ cPc' = other.cPc /\ cPos' = other.cPos /\ cDecoder' = other.cDecoder
    /\ cBuffer' = other.cBuffer /\ currentMessage' = other.currentMessage
    /\ out' = other.out /\ ds' = other.ds
    /\ UNCHANGED <<maxRetries, isLoading, error, messages, owners, relay2>>
    /\ UNCHANGED <<upText, upRest, decoder, pc, reader, buffer, lineNo,
                   isClosed, closes, closeCalls, enqFailed, lateWrites,
                   escaped, failure, fetches>>
    /\ UNCHANGED <<rfVars, postVars>>

\* the controller and the locals of the POST.start and streamFromAgentCore
\* call taking steps
ThisRelay ==
    [ upText |-> upText, upRest |-> upRest, decoder |-> decoder, pc |-> pc,
      reader |-> reader, buffer |-> buffer, lineNo |-> lineNo,
      isClosed |-> isClosed, ds |-> ds, out |-> out, closes |-> closes,
      closeCalls |-> closeCalls, enqFailed |-> enqFailed,
      lateWrites |-> lateWrites, escaped |-> escaped, failure |-> failure,
      fetches |-> fetches ]

\* SwitchRelay with the line buffer kept in a variable of the module, shared
\* by the calls
SwitchRelay_SharedBuffer ==
    /\ relay2.pc # "done"
    /\ relay2' = ThisRelay
    /\ upText' = relay2.upText /\ upRest' = relay2.upRest
    /\ decoder' = relay2.decoder /\ pc' = relay2.pc
    /\ reader' = relay2.reader /\ buffer' = buffer
    /\ lineNo' = relay2.lineNo /\ isClosed' = relay2.isClosed
    /\ ds' = relay2.ds /\ out' = relay2.out /\ closes' = relay2.closes
    /\ closeCalls' = relay2.closeCalls /\ enqFailed' = relay2.enqFailed
    /\ lateWrites' = relay2.lateWrites /\ escaped' = relay2.escaped
    /\ failure' = relay2.failure /\ fetches' = relay2.fetches
    /\ UNCHANGED <<clientVars, rfVars, postVars, sendVars, other>>

\* the event loop goes on with the other relay: the stream controller and
\* every variable of streamFromAgentCore belong to one call, the module has
\* no variable a call writes
SwitchRelay ==
    /\ relay2.pc # "done"
    /\ relay2' = ThisRelay
    /\ upText' = relay2.upText /\ upRest' = relay2.upRest
    /\ decoder' = relay2.decoder /\ pc' = relay2.pc
    /\ reader' = relay2.reader /\ buffer' = relay2.buffer
    /\ lineNo' = relay2.lineNo /\ isClosed' = relay2.isClosed
    /\ ds' = relay2.ds /\ out' = relay2.out /\ closes' = relay2.closes
    /\ closeCalls' = relay2.closeCalls /\ enqFailed' = relay2.enqFailed
    /\ lateWrites' = relay2.lateWrites /\ escaped' = relay2.escaped
    /\ failure' = relay2.failure /\ fetches' = relay2.fetches
    /\ UNCHANGED <<clientVars, rfVars, postVars, sendVars, other>>

----------------------------------------------------------------------------
(* The two line reframers run on their own on a text cut into chunks *)


\* the inner while loop of streamFromAgentCore as far as lines are concerned
RECURSIVE ServerFeed(_, _)
ServerFeed(buf, chunk) ==
    LET b == buf \o chunk IN
    IF IndexOfNL(b) = 0 THEN [lines |-> <<>>, buffer |-> b]
    ELSE LET nl == NextLine(b)
             more == ServerFeed(nl.rest, <<>>)
         IN  [lines |-> <<nl.line>> \o more.lines, buffer |-> more.buffer]

RfIdle == [pos |-> 0, pending |-> <<>>, buffer |-> <<>>, lines |-> <<>>]

RfInit ==
    /\ rfText \in UpstreamTexts
    /\ rfServer = RfIdle
    /\ rfClient = RfIdle

RfServerChunk(k) ==
    /\ k \in 1..(Len(Encode(rfText)) - rfServer.pos)
    /\ LET value == SubSeq(Encode(rfText), rfServer.pos + 1, rfServer.pos + k)
           chunk == DecodeStream(rfServer.pending, value)
           fed == ServerFeed(rfServer.buffer, chunk.text)
       IN  rfServer' = [ pos |-> rfServer.pos + k, pending |-> chunk.pending,
                         buffer |-> fed.buffer,
                         lines |-> rfServer.lines \o fed.lines ]
    /\ UNCHANGED <<rfText, rfClient>>
    /\ UNCHANGED <<relayVars, clientVars, postVars, sendVars, pairVars>>

RfClientChunk(k) ==
    /\ k \in 1..(Len(Encode(rfText)) - rfClient.pos)
    /\ LET value == SubSeq(Encode(rfText), rfClient.pos + 1, rfClient.pos + k)
           chunk == DecodeStream(rfClient.pending, value)
           fed == ClientFeed(rfClient.buffer, chunk.text)
       IN  rfClient' = [ pos |-> rfClient.pos + k, pending |-> chunk.pending,
                         buffer |-> fed.buffer,
                         lines |-> rfClient.lines \o fed.lines ]
    /\ UNCHANGED <<rfText, rfServer>>
    /\ UNCHANGED <<relayVars, clientVars, postVars, sendVars, pairVars>>

----------------------------------------------------------------------------
(* Specifications *)

vars == <<relayVars, clientVars, rfVars, postVars, sendVars, pairVars>>

RfOff == rfText = <<>> /\ rfServer = RfIdle /\ rfClient = RfIdle

\* the locals of sendMessage call number id that has not started, prompt p
IdleSend(p, id) ==
    [ prompt |-> p, retryCount |-> 0, timers |-> <<>>, fired |-> 0,
      tokenFetches |-> 0, creds |-> 0, usedCreds |-> <<>>,
      sentPrompts |-> <<>>, attempts |-> 0, lastStatus |-> "none", self |-> id,
      cPc |-> "idle", cPos |-> 0, cDecoder |-> <<>>, cBuffer |-> <<>>,
      currentMessage |-> <<>>, out |-> <<>>, ds |-> "open" ]

\* the locals of a streamFromAgentCore call that has not started, upstream
\* text T
IdleRelay(T) ==
    [ upText |-> T, upRest |-> Encode(T), decoder |-> <<>>, pc |-> "init",
      reader |-> "none", buffer |-> <<>>, lineNo |-> 0, isClosed |-> FALSE,
      ds |-> "open", out |-> <<>>, closes |-> 0, closeCalls |-> 0,
      enqFailed |-> FALSE, lateWrites |-> 0, escaped |-> FALSE,
      failure |-> "none", fetches |-> 0 ]

\* no second invocation
PairOff == other = IdleSend("blank", 2) /\ relay2 = IdleRelay(<<>>)

\* the relay on its own, whatever the consumer of the response does
Init == RelayInit /\ ClientInit /\ RfOff /\ PostOff /\ SendFetched /\ PairOff

Next ==
    \/ StartHandler
    \/ FetchOk
    \/ \E f \in {"network", "status", "nobody"} : FetchFail(f)
    \/ \E k \in 1..Len(upRest) : ReadChunk(k)
    \/ ReadDone
    \/ ReadError
    \/ ClientCancel

Spec == Init /\ [][Next]_vars

\* the relay together with the client that reads its response
InitE2E ==
    /\ RelayInit
    /\ upText \in Examples \cup UNION {TextsOfLen(n) : n \in 0..MaxE2ELen}
    /\ ClientInit
    /\ RfOff
    /\ PostOff
    /\ SendFetched
    /\ PairOff

NextE2E ==
    \/ StartHandler
    \/ FetchOk
    \/ \E f \in {"network", "status", "nobody"} : FetchFail(f)
    \/ \E k \in 1..Len(upRest) : ReadChunk(k)
    \/ ReadDone
    \/ ReadError
    \/ ClientCancel
    \/ BeginStreaming
    \/ \E k \in 1..(Len(Encode(Wire(out))) - cPos) : ClientRead(k)
    \/ ClientDone
    \/ ClientReadError

SpecE2E == InitE2E /\ [][NextE2E]_vars

\* the reframers alone
InitReframe ==
    /\ upText = <<>> /\ upRest = <<>> /\ decoder = <<>> /\ pc = "done"
    /\ reader = "none"
    /\ buffer = <<>> /\ lineNo = 0 /\ isClosed = FALSE /\ ds = "open"
    /\ out = <<>> /\ closes = 0 /\ closeCalls = 0 /\ enqFailed = FALSE
    /\ lateWrites = 0 /\ escaped = FALSE /\ failure = "none" /\ fetches = 0
    /\ ClientInit
    /\ RfInit
    /\ PostOff
    /\ SendFetched
    /\ PairOff

NextReframe ==
    \/ \E k \in 1..Len(Encode(rfText)) : RfServerChunk(k)
    \/ \E k \in 1..Len(Encode(rfText)) : RfClientChunk(k)

SpecReframe == InitReframe /\ [][NextReframe]_vars

\* the inbound POST followed by the relay of its stream
InitPost ==
    /\ upText \in Examples
    /\ upRest = Encode(upText) /\ decoder = <<>> /\ pc = "nostream"
    /\ reader = "none" /\ buffer = <<>> /\ lineNo = 0 /\ isClosed = FALSE
    /\ ds = "open" /\ out = <<>> /\ closes = 0 /\ closeCalls = 0
    /\ enqFailed = FALSE /\ lateWrites = 0 /\ escaped = FALSE
    /\ failure = "none" /\ fetches = 0
    /\ ClientInit
    /\ RfOff
    /\ request \in Requests
    /\ postPc = "request"
    /\ response = 0
    /\ verifyResult = [called |-> FALSE, threw |-> FALSE, value |-> FALSE]
    /\ SendFetched
    /\ PairOff

NextPost ==
    \/ PostValidate
    \/ PostRespond
    \/ StartHandler
    \/ FetchOk
    \/ \E f \in {"network", "status", "nobody"} : FetchFail(f)
    \/ \E k \in 1..Len(upRest) : ReadChunk(k)
    \/ ReadDone
    \/ ReadError
    \/ ClientCancel

SpecPost == InitPost /\ [][NextPost]_vars

\* the hook on its own against a server that answers as the relay can
InitClient ==
    /\ upText = <<>> /\ upRest = <<>> /\ decoder = <<>> /\ pc = "done"
    /\ reader = "none"
    /\ buffer = <<>> /\ lineNo = 0 /\ isClosed = FALSE /\ ds = "open"
    /\ out = <<>> /\ closes = 0 /\ closeCalls = 0 /\ enqFailed = FALSE
    /\ lateWrites = 0 /\ escaped = FALSE /\ failure = "none" /\ fetches = 0
    /\ ClientInit
    /\ RfOff
    /\ PostOff
    /\ SendInit
    /\ PairOff

NextClient ==
    \/ SendMessage
    \/ \E session \in Sessions : TokensResolved(session)
    \/ \E r \in FetchFailures : FetchRejected(r)
    \/ \E body \in ResponseBodies, end \in {"closed", "cancelled"} :
          FetchStreams(body, end)
    \/ \E k \in 1..(Len(Encode(Wire(out))) - cPos) : ClientRead(k)
    \/ ClientDone
    \/ ClientReadError
    \/ RetryTimer

SpecClient == InitClient /\ [][NextClient]_vars

\* bodies the two calls of the hook are answered with
TwoBodies == {<<>>, <<TestFrame, MkFrame(Delta(<<"Hi">>), 1)>>}

\* two sendMessage calls on one hook, the second made as soon as the form of
\* ChatTest allows it
InitTwoSends ==
    /\ upText = <<>> /\ upRest = <<>> /\ decoder = <<>> /\ pc = "done"
    /\ reader = "none"
    /\ buffer = <<>> /\ lineNo = 0 /\ isClosed = FALSE /\ ds = "open"
    /\ out = <<>> /\ closes = 0 /\ closeCalls = 0 /\ enqFailed = FALSE
    /\ lateWrites = 0 /\ escaped = FALSE /\ failure = "none" /\ fetches = 0
    /\ ClientInit
    /\ RfOff
    /\ PostOff
    /\ SendInit
    /\ prompt = "text"
    /\ maxRetries \in {1, 2}
    /\ other = IdleSend("text", 2)
    /\ relay2 = IdleRelay(<<>>)

NextTwoSends ==
    \/ SendMessage
    \/ \E session \in {"both", "rejected"} : TokensResolved(session)
    \/ FetchRejected("network")
    \/ \E body \in TwoBodies : FetchStreams(body, "closed")
    \/ \E k \in 1..(Len(Encode(Wire(out))) - cPos) : ClientRead(k)
    \/ ClientDone
    \/ RetryTimer
    \/ SwitchSend

SpecTwoSends == InitTwoSends /\ [][NextTwoSends]_vars

\* upstream texts of the two relays run together
PairTexts ==
    { <<DATA, Delta(<<"Hi">>), NL, X, NL>>,
      <<X, U, NL, DATA, DONE, NL, X>> }

\* two inbound requests served at the same time
InitTwoRelays ==
    /\ upText \in PairTexts
    /\ upRest = Encode(upText) /\ decoder = <<>> /\ pc = "init"
    /\ reader = "none" /\ buffer = <<>> /\ lineNo = 0 /\ isClosed = FALSE
    /\ ds = "open" /\ out = <<>> /\ closes = 0 /\ closeCalls = 0
    /\ enqFailed = FALSE /\ lateWrites = 0 /\ escaped = FALSE
    /\ failure = "none" /\ fetches = 0
    /\ ClientInit
    /\ RfOff
    /\ PostOff
    /\ SendFetched
    /\ other = IdleSend("blank", 2)
    /\ \E T \in PairTexts : relay2 = IdleRelay(T)

NextTwoRelays ==
    \/ StartHandler
    \/ FetchOk
    \/ \E f \in {"network", "status", "nobody"} : FetchFail(f)
    \/ \E k \in 1..Len(upRest) : ReadChunk(k)
    \/ ReadDone
    \/ ReadError
    \/ ClientCancel
    \/ SwitchRelay

SpecTwoRelays == InitTwoRelays /\ [][NextTwoRelays]_vars

----------------------------------------------------------------------------
(* Properties *)

\* the segments of a text between its newlines, from the positions of the
\* newlines; the last segment is the part after the last newline
NLPositions(T) == {i \in 1..Len(T) : T[i] = NL}

NthNL(T, n) ==
    IF n = 0 THEN 0
    ELSE IF n > Cardinality(NLPositions(T)) THEN Len(T) + 1
    ELSE CHOOSE i \in NLPositions(T) :
            Cardinality({j \in NLPositions(T) : j <= i}) = n

SplitOnNewline(T) ==
    [n \in 1..(Cardinality(NLPositions(T)) + 1) |->
        SubSeq(T, NthNL(T, n - 1) + 1, NthNL(T, n) - 1)]

CompleteLines(T) ==
    SubSeq(SplitOnNewline(T), 1, Cardinality(NLPositions(T)))

\* upstream line number i as the relay sees it
UpLine(i) == Trim(SplitOnNewline(upText)[i])

IsSentinelLine(l) == Len(l) > 1 /\ Head(l) = DATA /\ Trim(Tail(l)) = <<DONE>>

IsErrorLine(l) ==
    \/ Len(l) = 1 /\ l[1].t = "error"
    \/ Len(l) > 1 /\ Head(l) = DATA /\ Len(Trim(Tail(l))) = 1
       /\ Trim(Tail(l))[1].t = "error"

\* C1: over a whole relay invocation controller.close takes effect at most
\* once, and no close or write attempt on an already closed controller
\* raises an error out of the relay.
C1_CloseAtMostOnce == closes <= 1 /\ ~escaped

\* C1 witness: close was attempted on a stream the consumer had already
\* closed; the attempt was swallowed
C1_Witness == pc = "done" /\ closeCalls = 1 /\ closes = 0 /\ ds = "cancelled"

\* C2: when the start handler has returned the downstream stream is not
\* open, whichever way the relay ended.
C2_ClosedAtReturn == pc = "done" => ds # "open"

\* C2 witness: the relay read the upstream to its end and closed
C2_Witness ==
    /\ pc = "done" /\ ds = "closed" /\ failure = "none" /\ upRest = <<>>
    /\ Len(out) >= 2

\* C3: once the relay has taken a `data: [DONE]` line out of the buffer the
\* handler is finished, the stream is not open, and the downstream holds
\* nothing but the frames written for the lines before the sentinel.
C3_SentinelCloses ==
    \A i \in 1..lineNo :
        IsSentinelLine(UpLine(i)) =>
            /\ pc = "done"
            /\ ds # "open"
            /\ \A j \in 2..Len(out) : out[j].src > 0 /\ out[j].src < i

\* C3 witness: the sentinel was processed on an open stream while lines
\* were still buffered or unread
C3_Witness ==
    /\ lineNo >= 2
    /\ IsSentinelLine(UpLine(lineNo))
    /\ ds = "closed"
    /\ Len(out) >= 2
    /\ Len(buffer) + Len(upRest) >= 2

\* C4 (as claimed): once the relay has processed a line whose JSON is an
\* object with a string error field, with the consumer still there, the
\* downstream holds exactly one error event for it, the stream is closed and
\* holds no frame of a later line.
C4_ErrorIsTerminal ==
    \A i \in 1..lineNo :
        (IsErrorLine(UpLine(i)) /\ ds # "cancelled"
           /\ ~(\E k \in 1..(i - 1) : IsSentinelLine(UpLine(k)))) =>
            /\ Cardinality({j \in 1..Len(out) :
                              out[j].src = i /\ out[j].json.t = "error"}) = 1
            /\ ds = "closed"
            /\ \A j \in 1..Len(out) : out[j].src <= i

\* C5 (as claimed): after an upstream failure, with the consumer still
\* there, the last frame written is the one error event of the stream, the
\* stream is closed and the upstream was contacted once.
C5_UpstreamFailure ==
    (pc = "done" /\ failure # "none" /\ ds # "cancelled") =>
        /\ ds = "closed"
        /\ fetches = 1
        /\ out # <<>>
        /\ out[Len(out)].json.t = "error"
        /\ out[Len(out)].src = 0
        /\ Cardinality({j \in 1..Len(out) : out[j].src = 0
                                            /\ out[j].json.t = "error"}) = 1

\* the JSON value the relay forwards for a line of its own
FrameOfLine(l) ==
    LET body == IF Len(l) > 1 /\ Head(l) = DATA THEN Trim(Tail(l)) ELSE l IN
    IF Len(Trim(body)) = 1 /\ Trim(body)[1].t \in {"delta", "error", "json"}
    THEN [Trim(body)[1] EXCEPT !.ws = FALSE]
    ELSE Delta(TextOf(l))

\* C6: the frames written for upstream lines appear in the order of their
\* lines, at most one per line, and each is the frame of that line alone.
C6_UpstreamOrder ==
    /\ \A j, k \in 1..Len(out) :
          (j < k /\ out[j].src > 0 /\ out[k].src > 0) => out[j].src < out[k].src
    /\ \A j \in 1..Len(out) :
          out[j].src > 0 =>
             /\ out[j].src <= Len(SplitOnNewline(upText))
             /\ out[j].json = FrameOfLine(UpLine(out[j].src))

\* C6 witness: three frames of three different upstream lines were written
C6_Witness ==
    /\ Cardinality({out[j].src : j \in 1..Len(out)} \ {0}) >= 3
    /\ pc = "done"

\* C9 (as claimed): when the handler is finished a reader that was acquired
\* has been released.
C9_ReaderReleased == (pc = "done" /\ reader # "none") => reader = "released"

\* C10: a failed write does not leave the relay, is recorded in isClosed when
\* it happens in the relay loop, and no write is attempted after it.
C10_NoWriteAfterFailure ==
    /\ ~escaped
    /\ lateWrites = 0
    /\ (enqFailed /\ failure = "none") => isClosed

\* C10 witness: a write failed in the relay loop and later lines were taken
\* out of the buffer without a write
C10_Witness ==
    /\ enqFailed /\ failure = "none" /\ isClosed /\ pc = "done"
    /\ \E i, k \in 1..lineNo :
          /\ i < k
          /\ FrameOfLine(UpLine(i)).t = "delta" /\ UpLine(i) # <<>>
          /\ FrameOfLine(UpLine(k)).t = "delta" /\ UpLine(k) # <<>>
          /\ \A j \in 1..Len(out) : out[j].src < i

\* the length of a text in bytes, and the number of its characters that
\* are complete within its first n bytes
ByteLen(T) == Len(T) + Cardinality({i \in 1..Len(T) : T[i] = U})

CharsWithin(T, n) ==
    CHOOSE c \in 0..Len(T) :
        /\ ByteLen(SubSeq(T, 1, c)) <= n
        /\ \A d \in (c + 1)..Len(T) : ByteLen(SubSeq(T, 1, d)) > n

TrimAll(lines) == [i \in 1..Len(lines) |-> Trim(lines[i])]

\* C7 (as claimed): when the whole text went through a reframer, cut into
\* chunks in any way, the lines it produced are the segments that splitting
\* the text on newline gives.
C7_LinesEqualSplit ==
    /\ rfServer.pos = ByteLen(rfText) => rfServer.lines = CompleteLines(rfText)
    /\ rfClient.pos = ByteLen(rfText) => rfClient.lines = CompleteLines(rfText)

\* C7 (amended): after any number of chunks the client reframer has produced
\* the segments that splitting the text read so far on newline gives, the
\* server reframer the same segments each trimmed of surrounding whitespace,
\* and both keep the part after the last newline as their buffer.
C7_ChunkingInvisible ==
    LET seenS == SubSeq(rfText, 1, CharsWithin(rfText, rfServer.pos))
        seenC == SubSeq(rfText, 1, CharsWithin(rfText, rfClient.pos))
    IN  /\ rfServer.lines = TrimAll(CompleteLines(seenS))
        /\ rfServer.buffer = SplitOnNewline(seenS)[Len(SplitOnNewline(seenS))]
        /\ rfClient.lines = CompleteLines(seenC)
        /\ rfClient.buffer = SplitOnNewline(seenC)[Len(SplitOnNewline(seenC))]

\* C7 witness: both reframers hold a partial line and half a character left
\* by a chunk boundary after having produced lines, one of which the server
\* trimmed
C7_Witness ==
    /\ rfServer.buffer # <<>> /\ Len(rfServer.lines) >= 2
    /\ rfClient.buffer # <<>> /\ Len(rfClient.lines) >= 2
    /\ rfServer.pending # <<>> /\ rfClient.pending # <<>>
    /\ rfServer.lines # rfClient.lines

\* C8 (as claimed): for the upstream of the example, deltas "Hi" and
\* " there" then the sentinel, the client ends with the accumulated message
\* "Hi there" and nothing else on a closed stream whose text deltas all come
\* from the upstream.
C8_HiThere ==
    (upText = HiThere /\ failure = "none" /\ cPc = "completed") =>
        /\ currentMessage = <<"Hi", " there">>
        /\ messages = <<currentMessage>>
        /\ ds = "closed"
        /\ \A j \in 1..Len(out) : out[j].src > 0

\* the payload of a line: what follows the `data: ` prefix, or the line
PayloadOf(l) == IF Len(l) > 1 /\ Head(l) = DATA THEN Trim(Tail(l)) ELSE l

HasDataPrefix(l) == Len(l) > 1 /\ Head(l) = DATA

IsJSONText(s) ==
    Len(Trim(s)) = 1 /\ Trim(s)[1].t \in {"delta", "error", "json"}

NoSentinelBefore(i) == \A k \in 1..(i - 1) : ~IsSentinelLine(UpLine(k))

FramesOf(i) == {j \in 1..Len(out) : out[j].src = i}

\* C11 (as claimed): every frame written downstream carries a canonical
\* event, a text delta or an error object; JSON of any other shape is not
\* forwarded as it is.
C11_CanonicalFrames ==
    \A j \in 1..Len(out) : out[j].json.t \in {"delta", "error"}

\* C12 (as claimed): every non-empty line that is not the sentinel and whose
\* payload is not JSON, with or without the `data: ` prefix, has one
\* text-delta frame downstream once the relay has processed it with the
\* consumer still there.
C12_UnparsedForwarded ==
    \A i \in 1..lineNo :
        ( /\ UpLine(i) # <<>> /\ ~IsSentinelLine(UpLine(i))
          /\ ~IsJSONText(PayloadOf(UpLine(i)))
          /\ NoSentinelBefore(i) /\ ds # "cancelled" ) =>
            \E j \in 1..Len(out) :
                /\ FramesOf(i) = {j}
                /\ out[j].json.t = "delta"

\* C12 (amended): every non-empty line without the `data: ` prefix whose
\* text is not JSON has exactly one frame downstream, the text delta that
\* carries the line, once the relay has processed it with the consumer still
\* there; a line with the prefix whose payload is neither the sentinel nor
\* JSON has no frame.
C12_PlainTextForwarded ==
    \A i \in 1..lineNo :
        ( /\ UpLine(i) # <<>> /\ ~IsJSONText(PayloadOf(UpLine(i)))
          /\ ~IsSentinelLine(UpLine(i)) ) =>
            IF HasDataPrefix(UpLine(i))
            THEN FramesOf(i) = {}
            ELSE (NoSentinelBefore(i) /\ ds # "cancelled") =>
                    \E j \in 1..Len(out) :
                        /\ FramesOf(i) = {j}
                        /\ out[j].json = Delta(TextOf(UpLine(i)))

\* C12 witness: a plain-text line was forwarded and a line with the prefix
\* and a payload that is not JSON was processed without a frame
C12_Witness ==
    \E i, k \in 1..lineNo :
        /\ ~HasDataPrefix(UpLine(i)) /\ UpLine(i) # <<>>
        /\ ~IsJSONText(UpLine(i)) /\ FramesOf(i) # {}
        /\ HasDataPrefix(UpLine(k)) /\ ~IsSentinelLine(UpLine(k))
        /\ ~IsJSONText(PayloadOf(UpLine(k))) /\ NoSentinelBefore(k)
        /\ ds # "cancelled"

\* the last segment of the upstream text, after the last newline
Leftover == SplitOnNewline(upText)[Len(SplitOnNewline(upText))]

LeftoverNo == Len(SplitOnNewline(upText))

\* the frames the relay writes for a line l numbered n on an open stream
FramesForLine(l, n) ==
    ProcessLine([St EXCEPT !.isClosed = FALSE, !.ds = "open", !.out = <<>>],
                Trim(l), n).out

\* C13 (as claimed): when the upstream has ended with a leftover that is not
\* blank, and the consumer is still there, the frames written for the
\* leftover are those the relay writes for the same text as a line.
C13_LeftoverAsLine ==
    ( /\ pc = "done" /\ failure = "none" /\ ds = "closed"
      /\ upRest = <<>> /\ decoder = <<>>
      /\ lineNo = LeftoverNo - 1 /\ NoSentinelBefore(LeftoverNo)
      /\ Trim(Leftover) # <<>> ) =>
        [j \in 1..Cardinality(FramesOf(LeftoverNo)) |->
            out[Len(out) - Cardinality(FramesOf(LeftoverNo)) + j]]
          = FramesForLine(Leftover, LeftoverNo)

TokenOk(req) == req.auth = "bearer" /\ req.verdict = "accept"

PromptMissingOrBlank(req) ==
    req.body \in {"no_prompt", "null_prompt", "empty", "blank"}

C19_FailsClosed ==
    verifyResult.called =>
        /\ ~verifyResult.threw
        /\ verifyResult.value <=> request.verdict = "accept"
        /\ (postPc = "done" /\ request.verdict # "accept") => response = 401

\* C19 witness: the key material could not be fetched; verifyJWT returned
\* false and the request was answered 401
C19_Witness ==
    /\ verifyResult.called /\ request.verdict = "jwks_fetch_failed"
    /\ ~verifyResult.value /\ response = 401

CommunicationError == error # <<>> /\ error[1] = "Communication error"

\* C14: with maxRetries = N, never more than N retries are scheduled and
\* never more than N + 1 attempts made; an invocation that ended in the
\* communication error (every attempt failed) scheduled exactly N retries,
\* made exactly N + 1 attempts and has no retry pending.
C14_RetryBudget ==
    /\ Len(timers) <= maxRetries
    /\ attempts <= maxRetries + 1
    /\ cPc = "retryWait" => (retryCount < maxRetries /\ Len(timers) = retryCount + 1)
    /\ (cPc = "failed" /\ CommunicationError) =>
          /\ Len(timers) = maxRetries
          /\ attempts = maxRetries + 1
          /\ retryCount = maxRetries
          /\ ~isLoading

\* C14 witness: with maxRetries = 2, three fetches failed one after the
\* other and the terminal error is set
C14_Witness ==
    /\ maxRetries = 2 /\ cPc = "failed" /\ attempts = 3 /\ Len(timers) = 2
    /\ Len(usedCreds) = 3 /\ lastStatus = "network"
    /\ error = <<"Communication error", "network">>

\* C15: a retry is pending only for an attempt that failed before it
\* started streaming; an attempt whose fetch resolved with an ok response
\* and a body never schedules a retry.
C15_NoRetryOnceStreaming == cPc = "retryWait" => lastStatus # "ok"

\* whether the consumer has read all of frame j of the response
FrameRead(j) == cPos >= Len(Encode(Wire(SubSeq(out, 1, j))))

IsErrorEvent(f) == f.json.t = "error" /\ f.json.text # <<>>

RECURSIVE DeltaText(_)
DeltaText(frames) ==
    IF frames = <<>> THEN <<>>
    ELSE (IF Head(frames).json.t = "delta" THEN Head(frames).json.text ELSE <<>>)
         \o DeltaText(Tail(frames))

\* C16: once the consumer has read a canonical error event of the response,
\* the invocation is Failed with the UI error set, and the accumulated
\* message holds nothing of the lines after the event.
C16_ErrorEventFails ==
    \A j \in 1..Len(out) :
        ( /\ lastStatus = "ok" /\ cPc \in {"streaming", "completed", "failed"}
          /\ IsErrorEvent(out[j]) /\ FrameRead(j)
          /\ \A i \in 1..(j - 1) : ~IsErrorEvent(out[i]) )
        => ( /\ cPc = "failed" /\ error # <<>>
             /\ currentMessage = DeltaText(SubSeq(out, 1, j - 1)) )

\* C17: after the server answered 401 or 400 the invocation is Failed: no
\* retry is pending and no further attempt is under way.
C17_AuthValidationTerminal ==
    lastStatus \in {"HTTP 400", "HTTP 401"} => cPc = "failed"

\* C20: the i-th HTTP request of the chain carries the tokens of the i-th
\* getAuthTokens call, made by the same attempt: no two requests carry the
\* tokens of one call.
C20_FreshCredentials ==
    /\ \A i \in 1..Len(usedCreds) : usedCreds[i] = i
    /\ Len(usedCreds) <= tokenFetches
    /\ tokenFetches <= attempts

\* C20 witness: three requests were sent, each with tokens of its own
C20_Witness == usedCreds = <<1, 2, 3>> /\ tokenFetches = 3 /\ retryCount = 2

\* C23: the i-th retry timer of an invocation, set after the failure of the
\* attempt with retryCount = i - 1, has the delay retryDelay * 2^(i - 1), and
\* every request of the invocation carries the prompt of the first one.
C23_BackoffAndPrompt ==
    /\ \A i \in 1..Len(timers) : timers[i] = retryDelay * (2 ^ (i - 1))
    /\ cPc = "retryWait" => Len(timers) = retryCount + 1
    /\ \A i \in 1..Len(sentPrompts) :
          sentPrompts[i] = sentPrompts[1] /\ sentPrompts[i] = "text"

\* C23 witness: three retries were scheduled, after 1000, 2000 and 4000 ms,
\* and the fourth request went out with the prompt of the first
C23_Witness ==
    /\ timers = <<1000, 2000, 4000>>
    /\ sentPrompts = <<"text", "text", "text", "text">>

\* C25: at most one retry timer of the invocation is set and has not fired,
\* and one is pending exactly while the invocation waits for its retry: no
\* attempt runs while a timer is pending.
C25_OneTimerPending ==
    /\ Len(timers) - fired <= 1
    /\ Len(timers) - fired = 1 <=> cPc = "retryWait"

\* C25 witness: the second retry timer is pending after the first has fired
C25_Witness == cPc = "retryWait" /\ Len(timers) = 2 /\ fired = 1

\* C26: at most one request goes to the upstream service, and none unless
\* the identity token was verified as valid, the access token was present
\* and the prompt was a non-blank string.
C26_UpstreamOnlyAfterChecks ==
    /\ fetches <= 1
    /\ fetches > 0 =>
          /\ verifyResult.called /\ verifyResult.value
          /\ request.auth = "bearer" /\ request.verdict = "accept"
          /\ request.access = "present"
          /\ request.body = "text"
          /\ response = 200

\* C26 witness: the upstream request of a valid POST was sent and the relay
\* has finished
C26_Witness == fetches = 1 /\ response = 200 /\ pc = "done" /\ postPc = "done"

Unfinished == cPc \in {"tokens", "fetch", "streaming", "retryWait"}

\* C28: isLoading is true whenever the invocation has an attempt under way
\* or a retry timer pending.
C28_LoadingWhileUnfinished == Unfinished => isLoading

\* C29: one invocation leaves at most one entry in the message list (the
\* list is empty when the invocation starts).
C29_OneEntryPerInvocation == Len(messages) <= 1

\* C30: when the last getAuthTokens call of the invocation gave no identity
\* token or no access token, the invocation is Failed with the error set
\* and isLoading cleared, no request was sent for that attempt and no retry
\* timer is pending.
C30_TokenFailureTerminal ==
    creds # tokenFetches =>
        /\ cPc = "failed"
        /\ error = <<"Unable to get authentication tokens">>
        /\ ~isLoading
        /\ Len(usedCreds) = tokenFetches - 1
        /\ Len(timers) = fired

\* C30 witness: the token fetch of the first retry failed with two retries
\* left
C30_Witness ==
    /\ creds # tokenFetches /\ retryCount = 1 /\ maxRetries = 3
    /\ cPc = "failed" /\ Len(usedCreds) = 1

\* the entries of the message list appended by attempt n of call id
SlotsOf(id, n) == {i \in 1..Len(owners) : owners[i] = <<id, n>>}

\* whether the consumer has read the line of frame j of the response
LineRead(j) == cPos >= Len(Encode(Wire(SubSeq(out, 1, j)))) - 1

\* C21: while an attempt streams, the slot it appended is one entry of the
\* list and holds the concatenation, in order, of the text deltas of the
\* lines it has read so far.
C21_SlotHoldsCumulativeText ==
    (cPc = "streaming" /\ currentMessage # <<>>) =>
        /\ Cardinality(SlotsOf(self, retryCount)) = 1
        /\ \A i \in SlotsOf(self, retryCount) :
              /\ messages[i] = currentMessage
              /\ \E n \in 0..Len(out) :
                    /\ \A j \in 1..n : LineRead(j)
                    /\ \A j \in (n + 1)..Len(out) : ~LineRead(j)
                    /\ messages[i] = DeltaText(SubSeq(out, 1, n))

\* C22: once an attempt whose stream completed with an empty accumulated
\* message is over, no entry of the list is the slot that attempt appended.
C22_EmptySlotRemoved ==
    (cPc = "completed" /\ lastStatus = "ok" /\ currentMessage = <<>>) =>
        SlotsOf(self, retryCount) = {}

\* C27: whatever the call taking steps does, the slot of the other call is
\* in the list and holds the text of the other call: its cumulative text
\* while it streams, its final text once it completed with one.
C27_OtherSlotUntouched ==
    ( /\ other.lastStatus = "ok"
      /\ \/ other.cPc = "streaming"
         \/ other.cPc = "completed" /\ other.currentMessage # <<>> ) =>
        /\ Cardinality(SlotsOf(other.self, other.retryCount)) = 1
        /\ \A i \in SlotsOf(other.self, other.retryCount) :
              messages[i] = other.currentMessage

FreshSt ==
    [ isClosed |-> FALSE, ds |-> "open", out |-> <<>>, closes |-> 0,
      closeCalls |-> 0, enqFailed |-> FALSE, lateWrites |-> 0,
      threw |-> FALSE, returned |-> FALSE ]

\* what a relay run alone does on the upstream text T delivered in one
\* chunk, when nothing fails and the consumer stays
Alone(T) ==
    LET s1 == ControllerEnqueue(FreshSt, TestFrame)
        d == DrainBuffer(s1, DecodeStream(<<>>, Encode(T)).text, 0)
    IN  IF d.st.returned THEN d.st ELSE Finish(d.st, d.buffer, d.lineNo)

IsPrefix(a, b) == Len(a) <= Len(b) /\ SubSeq(b, 1, Len(a)) = a

\* a relay r that met no failure behaves as the relay run alone on its input
AsAlone(r) ==
    (r.failure = "none" /\ r.ds # "cancelled") =>
        /\ IsPrefix(r.out, Alone(r.upText).out)
        /\ r.closes <= 1 /\ ~r.escaped
        /\ r.pc = "done" =>
              /\ r.out = Alone(r.upText).out
              /\ r.ds = Alone(r.upText).ds
              /\ r.closes = Alone(r.upText).closes

\* C24: under every interleaving of the steps of two relays, the output and
\* the close of each are those of that relay run alone on the same upstream
\* text.
C24_RelaysIndependent == AsAlone(ThisRelay) /\ AsAlone(relay2)

\* C24 witness: two relays on different upstream texts have both finished,
\* each with the output of its own text
C24_Witness ==
    /\ pc = "done" /\ relay2.pc = "done" /\ upText # relay2.upText
    /\ failure = "none" /\ relay2.failure = "none"
    /\ ds = "closed" /\ relay2.ds = "closed"
    /\ Len(out) > 1 /\ Len(relay2.out) > 1

====
